---- MODULE Spec2Model ----
(***************************************************************************)
(* Model of the redditstories subtitle timing engine.                      *)
(*                                                                         *)
(* Two variants of the timing loop exist in the sources and both are       *)
(* modelled, selected by the variable `variant`:                           *)
(*   "lib"  : build_srt_entries in src/src/subtitle.rs                     *)
(*   "main" : the loop inlined in main() of src/src/main.rs                *)
(*                                                                         *)
(* Time is counted in ticks of 1/20000 s (one sample period of a 20 kHz    *)
(* file), so 1 ms = 20 ticks; f64 divisions are modelled by truncating     *)
(* integer division, which errs by less than one tick (0.05 ms) per use.   *)
(* Texts are sequences of one-character strings.                           *)
(***************************************************************************)
EXTENDS Integers, Sequences, FiniteSets, TLC

\* ---------------------------------------------------------------- bounds
\* Largest number of segments (chunks) of one run.
MaxSegs == 2
\* Longest text handed to the tokenizer on its own.
MaxTextLen == 3

\* ----------------------------------------------------------------- units
TicksPerSecond == 20 * 1000
Ticks(ms) == ms * 20
\* 1 ms, the tolerance of the spec's coverage property.
Tolerance == Ticks(1)

\* ------------------------------------------------------------ generic
RECURSIVE SeqsUpTo(_, _)
\* All sequences over S of length at most n.
SeqsUpTo(S, n) ==
  IF n = 0 THEN {<<>>}
  ELSE LET shorter == SeqsUpTo(S, n - 1)
       IN  shorter \cup {Append(s, c) : s \in shorter, c \in S}

Max(a, b) == IF a >= b THEN a ELSE b
Abs(a) == IF a >= 0 THEN a ELSE 0 - a

\* A Result<f64>: Err, or Ok of a finite number of ticks, or Ok of what an
\* f64 division by zero gives (inf for x / 0.0 with x > 0, NaN for 0.0 / 0.0).
Ok(v) == [ok |-> TRUE, val |-> v, kind |-> "finite"]
Err == [ok |-> FALSE, val |-> 0, kind |-> "error"]
OkInf == [ok |-> TRUE, val |-> 0, kind |-> "inf"]
OkNaN == [ok |-> TRUE, val |-> 0, kind |-> "NaN"]
\* Result::unwrap_or
unwrap_or(r, d) == IF r.ok THEN r.val ELSE d

\* ------------------------------------------------------------ audio.rs
\* A WAV file as hound sees it: whether the header opens, whether every
\* sample decodes as i16, the header's channel count and sample rate, and
\* the interleaved sample stream, run-length encoded as <<amp, len>> runs
\* (len consecutive samples of absolute amplitude amp).
SILENCE_THRESHOLD == 500
MIN_SILENCE_LEN == 2000

Run(amp, len) == [amp |-> amp, len |-> len]

RECURSIVE TotalSamples(_)
\* reader.len(): the number of samples of all channels together.
TotalSamples(runs) ==
  IF runs = <<>> THEN 0 ELSE Head(runs).len + TotalSamples(Tail(runs))

\* WavReader::open(path): the file opens and hound accepts its header.
\* hound's header reader refuses a channel count of zero ("file contains
\* zero channels"); it puts no condition on the sample rate.
WavReader_open(w) == w.readable /\ w.channels > 0

\* x as f64 / rate as f64, in ticks of numer / denom.
DivF64(numer, denom) ==
  IF denom # 0 THEN Ok(numer \div denom)
  ELSE IF numer > 0 THEN OkInf ELSE OkNaN

\* wav_duration_seconds: samples / channels / sample_rate, in ticks.
wav_duration_seconds(w) ==
  IF ~WavReader_open(w) THEN Err
  ELSE DivF64(TotalSamples(w.runs) * TicksPerSecond, w.channels * w.sample_rate)

RECURSIVE ScanSilence(_, _, _, _)
\* The sample loop of detect_leading_silence, one run at a time: a run of
\* samples below the threshold adds its length to the counter; the first
\* sample of any other run either breaks the loop (counter already at
\* min_silence_len) or resets the counter, and the rest of that run keeps it
\* at the same outcome.
ScanSilence(runs, silence_samples, silence_threshold, min_silence_len) ==
  IF runs = <<>> THEN silence_samples
  ELSE IF Head(runs).len = 0
    THEN ScanSilence(Tail(runs), silence_samples, silence_threshold, min_silence_len)
  ELSE IF Head(runs).amp < silence_threshold
    THEN ScanSilence(Tail(runs), silence_samples + Head(runs).len,
                     silence_threshold, min_silence_len)
  ELSE IF silence_samples >= min_silence_len THEN silence_samples
  ELSE ScanSilence(Tail(runs), 0, silence_threshold, min_silence_len)

\* detect_leading_silence: counted samples / sample_rate, in ticks.
detect_leading_silence(w, silence_threshold, min_silence_len) ==
  IF ~WavReader_open(w) \/ ~w.decodable THEN Err
  ELSE DivF64(ScanSilence(w.runs, 0, silence_threshold, min_silence_len) * TicksPerSecond,
              w.sample_rate)

\* The files a pipeline run may find on disk after synthesis.
Wav(r, d, c, runs) ==
  [readable |-> r, decodable |-> d, channels |-> c, sample_rate |-> 20000, runs |-> runs]

\* A quiet lead-in of s samples followed by l loud samples.
LeadThenLoud(s, l) ==
  (IF s > 0 THEN <<Run(0, s)>> ELSE <<>>) \o (IF l > 0 THEN <<Run(500, l)>> ELSE <<>>)

\* 0.1 s of quiet (just min_silence_len samples) and 1 s of speech.
SampleStreams ==
  {LeadThenLoud(s, l) : s \in {0, 2000}, l \in {0, 20000}} \ {<<>>}

Wavs ==
  {Wav(TRUE, TRUE, c, rs) : c \in {1, 2}, rs \in SampleStreams}
    \cup {Wav(FALSE, FALSE, 1, <<>>)}
    \cup {Wav(TRUE, FALSE, 1, LeadThenLoud(2000, 20000))}

\* --------------------------------------------------------- subtitle.rs
COMMA_PAUSE == Ticks(200)
SENTENCE_END_PAUSE == Ticks(400)

\* \w of the regex crate on the modelled alphabet: letters, digits, '_'.
IsWordChar(c) ==
  c \in {"a", "b", "H", "e", "l", "o", "w", "r", "d", "p", "h", "n", "t", "1", "_"}
\* [\w'-]
IsWordCont(c) == IsWordChar(c) \/ c \in {"'", "-"}
\* [,.!?]
IsPunct(c) == c \in {",", ".", "!", "?"}

RECURSIVE WordEnd(_, _)
\* The greedy [\w'-]* after a \w at position p: index of the last character
\* of the match.
WordEnd(text, p) ==
  IF p < Len(text) /\ IsWordCont(text[p + 1]) THEN WordEnd(text, p + 1) ELSE p

RECURSIVE find_iter(_, _)
\* word_regex.find_iter(chunk_text) from position p: the leftmost
\* non-overlapping matches of (\w[\w'-]*)|([,.!?]), as strings.
find_iter(text, p) ==
  IF p > Len(text) THEN <<>>
  ELSE IF IsWordChar(text[p])
    THEN <<SubSeq(text, p, WordEnd(text, p))>> \o find_iter(text, WordEnd(text, p) + 1)
  ELSE IF IsPunct(text[p]) THEN <<SubSeq(text, p, p)>> \o find_iter(text, p + 1)
  ELSE find_iter(text, p + 1)

\* let elements: Vec<&str> = word_regex.find_iter(chunk_text)...collect()
Elements(text) == find_iter(text, 1)

\* floor(1000 * n^0.75) and floor(1000 * n^0.5) for n = 1..9: powf in
\* fixed point with three decimals.
Pow075 == <<1000, 1681, 2279, 2828, 3343, 3833, 4303, 4756, 5196>>
Pow050 == <<1000, 1414, 1732, 2000, 2236, 2449, 2645, 2828, 3000>>

\* alpha of each variant: 0.75 in subtitle.rs, 0.5 in main.rs.
powf(n, v) == IF n = 0 THEN 0 ELSE IF v = "lib" THEN Pow075[n] ELSE Pow050[n]

\* The arms of `match element` that count pause time (first pass).
IsCommaElem(e) == e = <<",">>
IsCountedSentenceEnd(e) == e \in {<<".">>, <<"!">>, <<"?">>}
\* The sentence-end arm of the token walk (second pass).
IsWalkSentenceEnd(e, v) ==
  IF v = "lib" THEN e \in {<<".">>, <<"!">>, <<"?">>, <<";">>}
  ELSE e \in {<<".">>, <<"!">>, <<"?">>}

RECURSIVE TotalPauseTime(_)
TotalPauseTime(elems) ==
  IF elems = <<>> THEN 0
  ELSE (IF IsCommaElem(Head(elems)) THEN COMMA_PAUSE
        ELSE IF IsCountedSentenceEnd(Head(elems)) THEN SENTENCE_END_PAUSE
        ELSE 0) + TotalPauseTime(Tail(elems))

RECURSIVE WordElements(_)
WordElements(elems) ==
  IF elems = <<>> THEN <<>>
  ELSE IF IsCommaElem(Head(elems)) \/ IsCountedSentenceEnd(Head(elems))
    THEN WordElements(Tail(elems))
  ELSE <<Head(elems)>> \o WordElements(Tail(elems))

RECURSIVE TotalWeight(_, _)
TotalWeight(words, v) ==
  IF words = <<>> THEN 0
  ELSE powf(Len(Head(words)), v) + TotalWeight(Tail(words), v)

\* word_time_available * word_weight / total_weight, 0 without weight.
WordDuration(available, weight, total) ==
  IF total > 0 THEN (available * weight) \div total ELSE 0

Cue(s, e, t) == [start |-> s, end |-> e, text |-> t]

\* ------------------------------------------------------------- inputs
\* The chunk texts of a pipeline run: no text, a text without tokens, a
\* word before and after a pause, a pause alone, pauses longer than a second
\* of speech, two words of different lengths.
ChunkTexts ==
  { <<>>,
    <<";">>,
    <<"a", ",">>,
    <<",", "a">>,
    <<".">>,
    <<".", ".", ".", "a">>,
    <<"a", "b", " ", "a">> }
ChunkLists == SeqsUpTo(ChunkTexts, MaxSegs) \ {<<>>}

\* -------------------------------------------------------------- state
VARIABLES
  variant,                \* which timing loop runs: "lib" or "main"
  chunks,                 \* the text segments, in document order
  pc,                     \* "tts", "timing", "walk", "done", "failed"
  i,                      \* index of the next chunk of the running loop
  part_files,             \* names of the audio files generated so far
  srt_entries,            \* the cue list
  cumulative_seconds,     \* the cumulative clock
  dur, leading_silence,   \* locals of the current loop iteration
  start_time_of_chunk, end_time_of_chunk,
  elements, word_time_available, total_weight,
  current_time_in_chunk,
  j,                      \* tokens of `elements` already walked
  srt_file,               \* what write_srt wrote: <<>> (no file) or <<cues>>
  error,                  \* the error main returned, "" if none
  segs,                   \* history: one record per segment timed so far
  disk,                   \* the contents a generated audio file may turn out to have
  fn_in, fn_out,          \* argument and result of a function run on its own
  used_file,              \* used_posts.json: the persisted set of post ids
  used_ids,               \* fetch_reddit_story's in-memory copy of that set
  listing,                \* the children of the listing the run fetched
  child,                  \* children of `listing` already looked at
  returned                \* history: the post ids returned by the runs so far

vars == <<variant, chunks, pc, i, part_files, srt_entries, cumulative_seconds,
          dur, leading_silence, start_time_of_chunk, end_time_of_chunk,
          elements, word_time_available, total_weight, current_time_in_chunk,
          j, srt_file, error, segs,
          disk, fn_in, fn_out, used_file, used_ids, listing, child, returned>>

\* What the timing pipeline never touches.
ext == <<disk, fn_in, fn_out, used_file, used_ids, listing, child, returned>>

locals == <<dur, leading_silence, start_time_of_chunk, end_time_of_chunk,
            elements, word_time_available, total_weight, current_time_in_chunk, j>>

\* No function is run on its own; no story is being fetched.
NoFunction == fn_in = <<>> /\ fn_out = <<>>
NoReddit ==
  /\ used_file = {} /\ used_ids = {} /\ listing = <<>> /\ child = 0 /\ returned = <<>>

Init ==
  /\ variant \in {"lib", "main"}
  /\ chunks \in ChunkLists
  /\ pc = "tts"
  /\ i = 0
  /\ part_files = <<>>
  /\ srt_entries = <<>>
  /\ cumulative_seconds = 0
  /\ dur = 0 /\ leading_silence = 0
  /\ start_time_of_chunk = 0 /\ end_time_of_chunk = 0
  /\ elements = <<>> /\ word_time_available = 0 /\ total_weight = 0
  /\ current_time_in_chunk = 0
  /\ j = 0
  /\ srt_file = <<>>
  /\ error = ""
  /\ segs = <<>>
  /\ disk = Wavs
  /\ NoFunction /\ NoReddit

\* ------------------------------------------------------- main.rs: TTS loop
\* tts_generate_chunk returned Ok for chunk i: its file name is pushed.
tts_generate_chunk_ok ==
  /\ pc = "tts" /\ i < Len(chunks)
  /\ part_files' = Append(part_files, i)
  /\ i' = i + 1
  /\ UNCHANGED <<ext, variant, chunks, pc, srt_entries, cumulative_seconds, locals,
                 srt_file, error, segs>>

\* As tts_generate_chunk_err, had main logged the error and gone on to the
\* next chunk.
tts_generate_chunk_err_ignored ==
  /\ pc = "tts" /\ i < Len(chunks)
  /\ i' = i + 1
  /\ UNCHANGED <<ext, variant, chunks, pc, part_files, srt_entries, cumulative_seconds,
                 locals, srt_file, error, segs>>

\* tts_generate_chunk returned Err for chunk i (or panicked): main returns.
tts_generate_chunk_err ==
  /\ pc = "tts" /\ i < Len(chunks)
  /\ pc' = "failed"
  /\ error' = "tts"
  /\ UNCHANGED <<ext, variant, chunks, i, part_files, srt_entries, cumulative_seconds,
                 locals, srt_file, segs>>

\* The TTS loop is over: srt_entries and cumulative_seconds are created and
\* the timing loop starts at the first file.
start_timing ==
  /\ pc = "tts" /\ i = Len(chunks)
  /\ pc' = "timing"
  /\ i' = 0
  /\ srt_entries' = <<>>
  /\ cumulative_seconds' = 0
  /\ UNCHANGED <<ext, variant, chunks, part_files, locals, srt_file, error, segs>>

\* ------------------------------------------------------ the timing loop
\* The leading silence the loop uses: subtitle.rs measures it and falls back
\* to 0 on error; main.rs never measures it.
LeadingSilenceUsed(w, v) ==
  IF v = "lib"
  THEN unwrap_or(detect_leading_silence(w, SILENCE_THRESHOLD, MIN_SILENCE_LEN), 0)
  ELSE 0

StartTimeOfChunk(cum, ls) == cum + ls
\* As EndTimeOfChunk, had the chunk end been start + dur (the leading silence
\* not taken off the remaining duration).
EndTimeOfChunk_silenceNotTakenOff(cum, d, ls, v) == cum + ls + d

EndTimeOfChunk(cum, d, ls, v) ==
  IF v = "lib" THEN StartTimeOfChunk(cum, ls) + (d - ls) ELSE cum + d

\* As WordTimeAvailable, had the pauses not been taken off the word budget.
WordTimeAvailable_pausesNotTakenOff(d, ls, pause) == Max(d - ls, 0)

WordTimeAvailable(d, ls, pause) == Max(d - ls - pause, 0)

\* What the history keeps of the segment whose timing starts.
SegRecord(w, d, ls) ==
  [idx |-> i,
   first |-> Len(srt_entries) + 1,
   clock |-> cumulative_seconds,
   dur |-> d,
   used_silence |-> ls,
   silence |-> unwrap_or(detect_leading_silence(w, SILENCE_THRESHOLD, MIN_SILENCE_LEN), 0),
   channels |-> w.channels,
   text |-> chunks[i + 1]]

\* As duration_err, had the loop skipped the unreadable file and gone on.
duration_err_skipsFile ==
  /\ pc = "timing" /\ i < Len(part_files)
  /\ \E w \in disk : ~wav_duration_seconds(w).ok
  /\ i' = i + 1
  /\ UNCHANGED <<ext, variant, chunks, pc, part_files, srt_entries, cumulative_seconds,
                 locals, srt_file, error, segs>>

\* wav_duration_seconds(part)? fails for file i: the error propagates out of
\* the loop and the cue vector is dropped.
duration_err ==
  /\ pc = "timing" /\ i < Len(part_files)
  /\ \E w \in disk : ~wav_duration_seconds(w).ok
  /\ pc' = "failed"
  /\ error' = "duration"
  /\ srt_entries' = <<>>
  /\ UNCHANGED <<ext, variant, chunks, i, part_files, cumulative_seconds, locals,
                 srt_file, segs>>

\* One whole iteration for a chunk whose text has no token: a single cue
\* spanning the chunk, the clock moved to its end, `continue`.
fallback_chunk ==
  /\ pc = "timing" /\ i < Len(part_files)
  /\ Elements(chunks[i + 1]) = <<>>
  /\ \E w \in disk :
       /\ wav_duration_seconds(w).ok
       /\ LET d == wav_duration_seconds(w).val
              ls == LeadingSilenceUsed(w, variant)
              st == StartTimeOfChunk(cumulative_seconds, ls)
              en == EndTimeOfChunk(cumulative_seconds, d, ls, variant)
          IN  /\ dur' = d
              /\ leading_silence' = ls
              /\ start_time_of_chunk' = st
              /\ end_time_of_chunk' = en
              /\ srt_entries' = Append(srt_entries, Cue(st, en, chunks[i + 1]))
              /\ cumulative_seconds' = en
              /\ segs' = Append(segs, SegRecord(w, d, ls))
  /\ elements' = <<>>
  /\ i' = i + 1
  /\ UNCHANGED <<ext, variant, chunks, pc, part_files, word_time_available, total_weight,
                 current_time_in_chunk, j, srt_file, error>>

\* The head of an iteration for a chunk with tokens: duration, silence,
\* chunk bounds, tokens, pause total, word budget and total weight.
begin_chunk ==
  /\ pc = "timing" /\ i < Len(part_files)
  /\ Elements(chunks[i + 1]) # <<>>
  /\ \E w \in disk :
       /\ wav_duration_seconds(w).ok
       /\ LET d == wav_duration_seconds(w).val
              ls == LeadingSilenceUsed(w, variant)
              st == StartTimeOfChunk(cumulative_seconds, ls)
              els == Elements(chunks[i + 1])
          IN  /\ dur' = d
              /\ leading_silence' = ls
              /\ start_time_of_chunk' = st
              /\ end_time_of_chunk' = EndTimeOfChunk(cumulative_seconds, d, ls, variant)
              /\ elements' = els
              /\ word_time_available' = WordTimeAvailable(d, ls, TotalPauseTime(els))
              /\ total_weight' = TotalWeight(WordElements(els), variant)
              /\ current_time_in_chunk' = st
              /\ segs' = Append(segs, SegRecord(w, d, ls))
  /\ j' = 0
  /\ pc' = "walk"
  /\ UNCHANGED <<ext, variant, chunks, i, part_files, srt_entries, cumulative_seconds,
                 srt_file, error>>

\* As PauseCues, had no variant pushed a cue for a pause.
PauseCues_never(v, at, p) == <<>>

\* The cues a pause of length p at the cursor appends: a blank cue spanning
\* the pause in subtitle.rs, none in main.rs.
PauseCues(v, at, p) == IF v = "lib" THEN <<Cue(at, at + p, <<" ">>)>> ELSE <<>>

\* The "," arm of the token walk.
walk_comma ==
  /\ pc = "walk" /\ j < Len(elements)
  /\ IsCommaElem(elements[j + 1])
  /\ srt_entries' = srt_entries \o PauseCues(variant, current_time_in_chunk, COMMA_PAUSE)
  /\ current_time_in_chunk' = current_time_in_chunk + COMMA_PAUSE
  /\ j' = j + 1
  /\ UNCHANGED <<ext, variant, chunks, pc, i, part_files, cumulative_seconds, dur,
                 leading_silence, start_time_of_chunk, end_time_of_chunk, elements,
                 word_time_available, total_weight, srt_file, error, segs>>

\* The sentence-end arm of the token walk.
walk_sentence_end ==
  /\ pc = "walk" /\ j < Len(elements)
  /\ ~IsCommaElem(elements[j + 1])
  /\ IsWalkSentenceEnd(elements[j + 1], variant)
  /\ srt_entries' =
       srt_entries \o PauseCues(variant, current_time_in_chunk, SENTENCE_END_PAUSE)
  /\ current_time_in_chunk' = current_time_in_chunk + SENTENCE_END_PAUSE
  /\ j' = j + 1
  /\ UNCHANGED <<ext, variant, chunks, pc, i, part_files, cumulative_seconds, dur,
                 leading_silence, start_time_of_chunk, end_time_of_chunk, elements,
                 word_time_available, total_weight, srt_file, error, segs>>

\* The word arm of the token walk.
walk_word ==
  /\ pc = "walk" /\ j < Len(elements)
  /\ ~IsCommaElem(elements[j + 1])
  /\ ~IsWalkSentenceEnd(elements[j + 1], variant)
  /\ LET word == elements[j + 1]
         word_duration ==
           WordDuration(word_time_available, powf(Len(word), variant), total_weight)
         word_end == current_time_in_chunk + word_duration
     IN  /\ srt_entries' = Append(srt_entries, Cue(current_time_in_chunk, word_end, word))
         /\ current_time_in_chunk' = word_end
  /\ j' = j + 1
  /\ UNCHANGED <<ext, variant, chunks, pc, i, part_files, cumulative_seconds, dur,
                 leading_silence, start_time_of_chunk, end_time_of_chunk, elements,
                 word_time_available, total_weight, srt_file, error, segs>>

\* The end of an iteration: cumulative_seconds = end_time_of_chunk.
end_chunk ==
  /\ pc = "walk" /\ j = Len(elements)
  /\ cumulative_seconds' = end_time_of_chunk
  /\ i' = i + 1
  /\ pc' = "timing"
  /\ UNCHANGED <<ext, variant, chunks, part_files, srt_entries, locals, srt_file, error, segs>>

\* --------------------------------------------------------------- write_srt
\* write_srt after the loop: the file holds one block per cue, in order.
write_srt_ok ==
  /\ pc = "timing" /\ i = Len(part_files)
  /\ srt_file' = <<srt_entries>>
  /\ pc' = "done"
  /\ UNCHANGED <<ext, variant, chunks, i, part_files, srt_entries, cumulative_seconds,
                 locals, error, segs>>

\* File::create or a writeln! failed: main returns the error.
write_srt_err ==
  /\ pc = "timing" /\ i = Len(part_files)
  /\ pc' = "failed"
  /\ error' = "write"
  /\ UNCHANGED <<ext, variant, chunks, i, part_files, srt_entries, cumulative_seconds,
                 locals, srt_file, segs>>

Next ==
  \/ tts_generate_chunk_ok
  \/ tts_generate_chunk_err
  \/ start_timing
  \/ duration_err
  \/ fallback_chunk
  \/ begin_chunk
  \/ walk_comma
  \/ walk_sentence_end
  \/ walk_word
  \/ end_chunk
  \/ write_srt_ok
  \/ write_srt_err

Spec == Init /\ [][Next]_vars

\* ------------------------------------------------ the tokenizer on its own
\* Characters of every class the regex tells apart: a letter, a digit, '_',
\* the two word-continuation marks, the four matched punctuation marks, ';'
\* and a blank.
TokAlphabet == {"a", "1", "_", "'", "-", ",", ".", "!", "?", ";", " "}
HelloWorld == <<"H", "e", "l", "l", "o", ",", " ", "w", "o", "r", "l", "d", "!">>
TokTexts == SeqsUpTo(TokAlphabet, MaxTextLen) \cup {HelloWorld}

InitTok ==
  /\ variant \in {"lib", "main"}
  /\ chunks \in {<<t>> : t \in TokTexts}
  /\ pc = "tokenize"
  /\ i = 0
  /\ part_files = <<>>
  /\ srt_entries = <<>>
  /\ cumulative_seconds = 0
  /\ dur = 0 /\ leading_silence = 0
  /\ start_time_of_chunk = 0 /\ end_time_of_chunk = 0
  /\ elements = <<>> /\ word_time_available = 0 /\ total_weight = 0
  /\ current_time_in_chunk = 0
  /\ j = 0
  /\ srt_file = <<>>
  /\ error = ""
  /\ segs = <<>>
  /\ disk = {}
  /\ NoFunction /\ NoReddit

\* elements = word_regex.find_iter(chunk_text)...collect()
tokenize ==
  /\ pc = "tokenize"
  /\ elements' = Elements(chunks[1])
  /\ pc' = "tokenized"
  /\ UNCHANGED <<ext, variant, chunks, i, part_files, srt_entries, cumulative_seconds,
                 dur, leading_silence, start_time_of_chunk, end_time_of_chunk,
                 word_time_available, total_weight, current_time_in_chunk, j,
                 srt_file, error, segs>>

NextTok == tokenize

SpecTok == InitTok /\ [][NextTok]_vars

\* ============================================================ properties
\* Readings of the history `segs` used by the properties below.

\* The cue vector is still alive (a duration error drops it).
CuesAlive == error # "duration"
\* Segment k's iteration is over.
SegComplete(k) == k < Len(segs) \/ pc # "walk"
\* Indices in srt_entries of the cues pushed for segment k.
LastCueOf(k) == IF k < Len(segs) THEN segs[k + 1].first - 1 ELSE Len(srt_entries)
CueIdx(k) == segs[k].first .. LastCueOf(k)
\* segmentStart and segmentEnd of the spec's allocator for segment k.
SegmentStart(k) == segs[k].clock + segs[k].silence
SegmentEnd(k) == segs[k].clock + segs[k].dur

RECURSIVE SpanSum(_, _)
\* Sum of (end - start) over the cues lo..hi.
SpanSum(lo, hi) ==
  IF lo > hi THEN 0
  ELSE (srt_entries[lo].end - srt_entries[lo].start) + SpanSum(lo + 1, hi)

IsPauseElem(e, v) == IsCommaElem(e) \/ IsWalkSentenceEnd(e, v)

\* C1: the cue list has non-decreasing start times, inside a segment and
\* across segment boundaries.
C1_StartsNonDecreasing ==
  \A c \in 1 .. Len(srt_entries) - 1 :
    srt_entries[c].start <= srt_entries[c + 1].start

\* C2: every cue of a segment that has a successor ends at or before the
\* successor's segmentStart (clock after the segment plus the successor's
\* leading silence).
C2_NoCueCrossesNextSegmentStart ==
  CuesAlive =>
    \A k \in 1 .. Len(segs) - 1 :
      \A c \in CueIdx(k) : srt_entries[c].end <= SegmentStart(k + 1)

\* C3: every cue returned by build_srt_entries has end >= start.
C3_EndNotBeforeStart ==
  variant = "lib" =>
    \A c \in 1 .. Len(srt_entries) : srt_entries[c].end >= srt_entries[c].start

\* C4: for every segment, the spans of its cues plus its pause time add up
\* to totalDuration - leadingSilence within 1 ms.
C4_SpansPlusPausesCoverSegment ==
  CuesAlive =>
    \A k \in 1 .. Len(segs) :
      SegComplete(k) =>
        Abs(SpanSum(segs[k].first, LastCueOf(k))
              + TotalPauseTime(Elements(segs[k].text))
              - (segs[k].dur - segs[k].used_silence)) <= Tolerance

\* A step of the token walk over a pause token.
PauseStep ==
  /\ pc = "walk" /\ j < Len(elements)
  /\ IsPauseElem(elements[j + 1], variant)
  /\ j' = j + 1
PauseOf(e) == IF IsCommaElem(e) THEN COMMA_PAUSE ELSE SENTENCE_END_PAUSE

RECURSIVE WordTokens(_, _)
\* The Word tokens of a token sequence, in order.
WordTokens(elems, v) ==
  IF elems = <<>> THEN <<>>
  ELSE IF IsPauseElem(Head(elems), v) THEN WordTokens(Tail(elems), v)
  ELSE <<Head(elems)>> \o WordTokens(Tail(elems), v)

\* The texts of the cues of segment k, in order.
CueTexts(k) ==
  [c \in 1 .. (LastCueOf(k) - segs[k].first + 1) |->
     srt_entries[segs[k].first + c - 1].text]
\* The same with the blank cues left out.
RECURSIVE NonBlank(_)
NonBlank(texts) ==
  IF texts = <<>> THEN <<>>
  ELSE IF Head(texts) = <<" ">> THEN NonBlank(Tail(texts))
  ELSE <<Head(texts)>> \o NonBlank(Tail(texts))

\* C5 as stated: a pause token only advances the cursor and leaves the cue
\* list unchanged.
C5_PauseLeavesCuesUnchanged ==
  [][PauseStep =>
       /\ srt_entries' = srt_entries
       /\ current_time_in_chunk' = current_time_in_chunk + PauseOf(elements[j + 1])]_vars

\* C5 amended: a pause token advances the cursor by its fixed pause; in
\* main.rs it leaves the cue list unchanged, in build_srt_entries it appends
\* exactly one blank cue (" ") spanning the pause; and in both, the non-blank
\* cues of a segment with tokens are exactly its Word tokens, in order.
C5_PauseStepEffect ==
  /\ [][PauseStep =>
          /\ current_time_in_chunk' = current_time_in_chunk + PauseOf(elements[j + 1])
          /\ variant = "main" => srt_entries' = srt_entries
          /\ variant = "lib" =>
               srt_entries' = Append(srt_entries,
                 Cue(current_time_in_chunk,
                     current_time_in_chunk + PauseOf(elements[j + 1]), <<" ">>))]_vars
  /\ [](CuesAlive =>
          \A k \in 1 .. Len(segs) :
            (SegComplete(k) /\ Elements(segs[k].text) # <<>>) =>
              /\ NonBlank(CueTexts(k)) = WordTokens(Elements(segs[k].text), variant)
              /\ variant = "main" => Len(CueTexts(k)) = Len(NonBlank(CueTexts(k)))
              /\ variant = "lib" => Len(CueTexts(k)) = Len(Elements(segs[k].text)))

\* C5 witness: build_srt_entries has walked a segment holding a word and a
\* pause to its end.
C5_Witness ==
  /\ variant = "lib" /\ pc = "walk" /\ j = Len(elements)
  /\ \E a, b \in 1 .. Len(elements) :
       IsPauseElem(elements[a], variant) /\ ~IsPauseElem(elements[b], variant)

\* The tokens the spec's tokenizer yields: kind and text of each token, a
\* Word per maximal run of letters, digits, apostrophes and hyphens, a Comma
\* per ',', a SentenceEnd per '.', '!', '?' or ';'.
IsSpecWordChar(c) ==
  c \in {"a", "b", "H", "e", "l", "o", "w", "r", "d", "p", "h", "n", "t", "1", "'", "-"}
RECURSIVE SpecRunEnd(_, _)
SpecRunEnd(text, p) ==
  IF p < Len(text) /\ IsSpecWordChar(text[p + 1]) THEN SpecRunEnd(text, p + 1) ELSE p
RECURSIVE SpecTokens(_, _)
SpecTokens(text, p) ==
  IF p > Len(text) THEN <<>>
  ELSE IF IsSpecWordChar(text[p])
    THEN <<[kind |-> "Word", text |-> SubSeq(text, p, SpecRunEnd(text, p))]>>
           \o SpecTokens(text, SpecRunEnd(text, p) + 1)
  ELSE IF text[p] = ","
    THEN <<[kind |-> "Comma", text |-> <<",">>]>> \o SpecTokens(text, p + 1)
  ELSE IF text[p] \in {".", "!", "?", ";"}
    THEN <<[kind |-> "SentenceEnd", text |-> <<text[p]>>]>> \o SpecTokens(text, p + 1)
  ELSE SpecTokens(text, p + 1)

\* How the token walk treats an element of `elements`.
KindOf(e, v) ==
  IF IsCommaElem(e) THEN "Comma"
  ELSE IF IsWalkSentenceEnd(e, v) THEN "SentenceEnd"
  ELSE "Word"
CodeTokens(elems, v) ==
  [n \in 1 .. Len(elems) |-> [kind |-> KindOf(elems[n], v), text |-> elems[n]]]

\* C6: tokenization yields exactly the spec's tokens, in order: a Word per
\* maximal run of letters/digits/apostrophes/hyphens, a Pause per ',', '.',
\* '!', '?' or ';', nothing else.
C6_TokensAsSpecified ==
  pc = "tokenized" => CodeTokens(elements, variant) = SpecTokens(chunks[1], 1)

\* C7: a fully silent segment (leadingSilence = totalDuration) with tokens
\* has only cues with start = end = segmentEnd.
C7_SilentSegmentCuesAtSegmentEnd ==
  (variant = "lib" /\ CuesAlive) =>
    \A k \in 1 .. Len(segs) :
      (SegComplete(k) /\ segs[k].silence = segs[k].dur
         /\ Elements(segs[k].text) # <<>>) =>
        \A c \in CueIdx(k) :
          /\ srt_entries[c].start = SegmentEnd(k)
          /\ srt_entries[c].end = SegmentEnd(k)

RECURSIVE DurSum(_)
\* Sum of the total durations of the first n segments timed.
DurSum(n) == IF n = 0 THEN 0 ELSE segs[n].dur + DurSum(n - 1)
\* Number of segments whose iteration is over.
SegsDone == IF pc = "walk" THEN Len(segs) - 1 ELSE Len(segs)
\* Number of cues the loop pushes for a text: one for a text without tokens,
\* else one per word, and in build_srt_entries one per pause as well.
CuesFor(text, v) ==
  IF Elements(text) = <<>> THEN 1
  ELSE IF v = "lib" THEN Len(Elements(text))
  ELSE Len(WordTokens(Elements(text), v))

\* C8: the cumulative clock starts at 0 and always equals the sum of the
\* total durations of the segments finished so far, whatever their texts and
\* leading silences; it changes only in the step that finishes a segment,
\* once, by that segment's total duration, when all the segment's cues are in
\* the list.
C8_ClockIsSumOfDurations ==
  /\ [](cumulative_seconds = DurSum(SegsDone))
  /\ [][/\ (cumulative_seconds' # cumulative_seconds) <=>
             (pc \in {"timing", "walk"} /\ i' = i + 1)
        /\ (cumulative_seconds' # cumulative_seconds) =>
             /\ cumulative_seconds' = cumulative_seconds + segs'[i'].dur
             /\ Len(srt_entries') - segs'[i'].first + 1 = CuesFor(segs'[i'].text, variant)
       ]_vars

\* C8 witness: a run finished two segments, the first with leading silence
\* and tokens, the second on the fallback path.
C8_Witness ==
  /\ pc = "done" /\ Len(segs) = 2
  /\ segs[1].used_silence > 0 /\ Elements(segs[1].text) # <<>>
  /\ Elements(segs[2].text) = <<>>
  /\ cumulative_seconds = segs[1].dur + segs[2].dur

\* C9: a failed duration read ends the run with an error, the cues computed
\* so far dropped and no subtitle file written; a subtitle file, when there
\* is one, holds the cues of every segment.
C9_NoPartialDocument ==
  /\ error = "duration" => (pc = "failed" /\ srt_entries = <<>> /\ srt_file = <<>>)
  /\ srt_file # <<>> =>
       /\ error = ""
       /\ Len(segs) = Len(chunks)
       /\ srt_file[1] = srt_entries
       /\ \A k \in 1 .. Len(segs) :
            LastCueOf(k) - segs[k].first + 1 = CuesFor(chunks[k], variant)

\* C9 witness: the duration read failed after an earlier segment was timed.
C9_Witness == error = "duration" /\ Len(segs) >= 1 /\ pc = "failed"

\* C10: no segment is timed while generation is still running or after it
\* failed: then no duration was read, no cue computed and no file written;
\* timing runs only with every segment's audio generated, and visits the
\* segments in index order.
C10_GenerationBeforeTiming ==
  /\ (pc = "tts" \/ error = "tts") =>
       (segs = <<>> /\ srt_entries = <<>> /\ srt_file = <<>>)
  /\ error = "tts" => pc = "failed"
  /\ segs # <<>> => Len(part_files) = Len(chunks)
  /\ pc \in {"timing", "walk", "done"} => Len(part_files) = Len(chunks)
  /\ \A k \in 1 .. Len(segs) : segs[k].idx = k - 1 /\ segs[k].text = chunks[k]

\* C10 witness: generation failed for a segment after an earlier segment's
\* audio had been generated.
C10_Witness == error = "tts" /\ Len(part_files) >= 1 /\ pc = "failed"

\* ============================================ functions run on their own
\* The timing pipeline at rest, for the specifications that run one function
\* of the program on inputs of their own.
pipeline == <<variant, chunks, i, part_files, srt_entries, cumulative_seconds,
              locals, srt_file, error, segs>>
reddit == <<used_file, used_ids, listing, child, returned>>

NoPipeline ==
  /\ variant = "lib" /\ chunks = <<>> /\ i = 0 /\ part_files = <<>>
  /\ srt_entries = <<>> /\ cumulative_seconds = 0
  /\ dur = 0 /\ leading_silence = 0
  /\ start_time_of_chunk = 0 /\ end_time_of_chunk = 0
  /\ elements = <<>> /\ word_time_available = 0 /\ total_weight = 0
  /\ current_time_in_chunk = 0 /\ j = 0
  /\ srt_file = <<>> /\ error = "" /\ segs = <<>>

\* ------------------------------------------------------ format_srt_time
\* A time is handed over as a whole number of units, per_ms units to the
\* millisecond (per_ms even): 20 for the pipeline's ticks, 4 for quarters of
\* a millisecond, which reach past 100 hours.
Quarters(ms) == ms * 4

\* As round_ms, had the product been truncated (`as u64` without .round()).
round_ms_truncated(x, per_ms) == IF x < 0 THEN 0 ELSE x \div per_ms

\* (seconds * 1000.0).round() as u64: f64::round rounds half away from zero
\* and the cast of a negative number saturates to 0.
round_ms(x, per_ms) == IF x < 0 THEN 0 ELSE (x + per_ms \div 2) \div per_ms

Digit(d) == <<"0", "1", "2", "3", "4", "5", "6", "7", "8", "9">>[d + 1]

RECURSIVE Decimal(_)
\* Display of an unsigned integer.
Decimal(n) == IF n < 10 THEN <<Digit(n)>> ELSE Append(Decimal(n \div 10), Digit(n % 10))

RECURSIVE PadZero(_, _)
\* {:0w}: zeros on the left up to width w, never a digit cut off.
PadZero(s, w) == IF Len(s) >= w THEN s ELSE PadZero(<<"0">> \o s, w)

format_srt_time(seconds, per_ms) ==
  LET total_ms == round_ms(seconds, per_ms)
      ms == total_ms % 1000
      total_sec == total_ms \div 1000
      s == total_sec % 60
      total_min == total_sec \div 60
      m == total_min % 60
      h == total_min \div 60
  IN  PadZero(Decimal(h), 2) \o <<":">> \o PadZero(Decimal(m), 2) \o <<":">>
        \o PadZero(Decimal(s), 2) \o <<",">> \o PadZero(Decimal(ms), 3)

\* Largest offset, in quarters of a millisecond, added to each base time.
MaxFmtOffset == 9
\* Base times in ms: zero, and just below a second, a minute, an hour, the
\* spec's 3661.5 s and 100 hours.
FmtBases == {0, 999, 59999, 3599999, 3661500, 359999999}
FmtTimes == {Quarters(b) + d : b \in FmtBases, d \in 0..MaxFmtOffset}

InitFmt ==
  /\ pc = "format"
  /\ fn_in \in FmtTimes
  /\ fn_out = <<>>
  /\ disk = {}
  /\ NoPipeline /\ NoReddit

\* One call of format_srt_time.
format_time ==
  /\ pc = "format"
  /\ fn_out' = format_srt_time(fn_in, Quarters(1))
  /\ pc' = "formatted"
  /\ UNCHANGED <<pipeline, reddit, disk, fn_in>>

NextFmt == format_time

SpecFmt == InitFmt /\ [][NextFmt]_vars

\* Reading a timestamp back: the last four characters are ",mmm", before
\* them ":SS" and ":MM", and the hours are whatever comes first.
IsDigit(c) == \E d \in 0..9 : Digit(d) = c
DigitValue(c) == CHOOSE d \in 0..9 : Digit(d) = c

RECURSIVE NumberOf(_)
NumberOf(s) ==
  IF s = <<>> THEN 0
  ELSE 10 * NumberOf(SubSeq(s, 1, Len(s) - 1)) + DigitValue(s[Len(s)])

StampFields(t) ==
  LET n == Len(t)
  IN  [h |-> SubSeq(t, 1, n - 10), m |-> SubSeq(t, n - 8, n - 7),
       s |-> SubSeq(t, n - 5, n - 4), ms |-> SubSeq(t, n - 2, n),
       seps |-> <<t[n - 9], t[n - 6], t[n - 3]>>]

StampWellFormed(t) ==
  /\ Len(t) >= 12
  /\ StampFields(t).seps = <<":", ":", ",">>
  /\ \A f \in {StampFields(t).h, StampFields(t).m, StampFields(t).s, StampFields(t).ms} :
       \A n \in 1..Len(f) : IsDigit(f[n])

StampMillis(t) ==
  NumberOf(StampFields(t).h) * 3600000 + NumberOf(StampFields(t).m) * 60000
    + NumberOf(StampFields(t).s) * 1000 + NumberOf(StampFields(t).ms)

\* C11: for every non-negative time t the timestamp is HH:MM:SS,mmm with at
\* least two digits of hours, two of minutes and seconds and three of
\* milliseconds, minutes and seconds below 60, and its fields recompose to
\* t * 1000 rounded to the nearest integer (a half rounds up, nothing is
\* truncated); 0 gives 00:00:00,000 and 3661.5 s gives 01:01:01,500.
C11_StampRecomposesToRoundedMillis ==
  pc = "formatted" =>
    /\ StampWellFormed(fn_out)
    /\ NumberOf(StampFields(fn_out).m) < 60
    /\ NumberOf(StampFields(fn_out).s) < 60
    /\ 2 * Abs(Quarters(StampMillis(fn_out)) - fn_in) <= Quarters(1)
    /\ Quarters(StampMillis(fn_out)) - fn_in # 0 - (Quarters(1) \div 2)
    /\ (fn_in = 0 =>
          fn_out = <<"0", "0", ":", "0", "0", ":", "0", "0", ",", "0", "0", "0">>)
    /\ (fn_in = Quarters(3661500) =>
          fn_out = <<"0", "1", ":", "0", "1", ":", "0", "1", ",", "5", "0", "0">>)

\* A time three quarters into the last millisecond of a minute has been
\* formatted: it rounds up and carries into the minutes.
C11_Witness ==
  /\ pc = "formatted"
  /\ fn_in = Quarters(59999) + 3
  /\ fn_out = <<"0", "0", ":", "0", "1", ":", "0", "0", ",", "0", "0", "0">>

\* -------------------------------------------------------------- wrap_text
\* A character is a one-character string; EAcute stands for a character
\* whose UTF-8 encoding takes two bytes.
EAcute == "e+"
utf8_len(c) == IF c = EAcute THEN 2 ELSE 1

RECURSIVE len(_)
\* String::len: the length in bytes.
len(s) == IF s = <<>> THEN 0 ELSE utf8_len(Head(s)) + len(Tail(s))

IsWhitespace(c) == c \in {" ", "\n"}

\* str::split_whitespace: the maximal runs of non-whitespace characters, in
\* order. A word starts where a non-whitespace character follows the start
\* of the text or a whitespace character, and stops before the next
\* whitespace character or at the end of the text.
WordStarts(s) ==
  {p \in 1..Len(s) : ~IsWhitespace(s[p]) /\ (p = 1 \/ IsWhitespace(s[p - 1]))}

WordStop(s, p) ==
  CHOOSE q \in p..Len(s) :
    /\ q = Len(s) \/ IsWhitespace(s[q + 1])
    /\ \A r \in p..q : ~IsWhitespace(s[r])

split_whitespace(s) ==
  LET nth(n) == CHOOSE p \in WordStarts(s) : Cardinality({q \in WordStarts(s) : q < p}) = n - 1
  IN  [n \in 1..Cardinality(WordStarts(s)) |-> SubSeq(s, nth(n), WordStop(s, nth(n)))]

\* As LineIsFull, had the comparison been >= (a line of exactly `width`
\* refused).
LineIsFull_offByOne(current, word, width) == len(current) + len(word) + 1 >= width

\* current.len() + word.len() + 1 > width
LineIsFull(current, word, width) == len(current) + len(word) + 1 > width

RECURSIVE wrap_loop(_, _, _, _)
\* The loop of wrap_text over the remaining words, and the final push.
wrap_loop(words, current, lines, width) ==
  IF words = <<>> THEN (IF current # <<>> THEN Append(lines, current) ELSE lines)
  ELSE LET word == Head(words)
       IN  IF LineIsFull(current, word, width) /\ current # <<>>
           THEN wrap_loop(Tail(words), word, Append(lines, current), width)
           ELSE wrap_loop(Tail(words),
                          (IF current # <<>> THEN Append(current, " ") ELSE current) \o word,
                          lines, width)

wrap_text(s, width) == wrap_loop(split_whitespace(s), <<>>, <<>>, width)

\* Longest text wrapped on its own, and the largest width tried on it.
MaxWrapLen == 5
MaxWidth == 4
OneTwoThree == <<"o", "n", "e", " ", "t", "w", "o", " ", "t", "h", "r", "e", "e">>
WrapAlphabet == {"a", EAcute, " ", "\n"}
WrapInputs ==
  {<<t, w>> : t \in SeqsUpTo(WrapAlphabet, MaxWrapLen), w \in 0..MaxWidth}
    \cup {<<OneTwoThree, 10>>}

InitWrap ==
  /\ pc = "wrap"
  /\ fn_in \in WrapInputs
  /\ fn_out = <<>>
  /\ disk = {}
  /\ NoPipeline /\ NoReddit

\* One call of wrap_text.
wrap ==
  /\ pc = "wrap"
  /\ fn_out' = wrap_text(fn_in[1], fn_in[2])
  /\ pc' = "wrapped"
  /\ UNCHANGED <<pipeline, reddit, disk, fn_in>>

NextWrap == wrap

SpecWrap == InitWrap /\ [][NextWrap]_vars

RECURSIVE WordsOfLines(_)
\* The words of a sequence of lines, read in order.
WordsOfLines(lines) ==
  IF lines = <<>> THEN <<>> ELSE split_whitespace(Head(lines)) \o WordsOfLines(Tail(lines))

RECURSIVE JoinSpace(_)
JoinSpace(words) ==
  IF words = <<>> THEN <<>>
  ELSE IF Len(words) = 1 THEN words[1]
  ELSE words[1] \o <<" ">> \o JoinSpace(Tail(words))

\* The length of s in characters or in bytes.
Length(s, unit) == IF unit = "bytes" THEN len(s) ELSE Len(s)

\* The properties of wrap_text's lines at a given measure of length: the
\* words of the lines, read in order, are the whitespace-separated words of
\* the text, whole; every line is its words joined by one blank; a line is
\* left for a new one only when it is non-empty and its length + 1 + the
\* length of the word that opens the next line exceeds the width; every line
\* is at most `width` long unless it is a single word.
GreedyWrap(text, width, lines, unit) ==
  /\ WordsOfLines(lines) = split_whitespace(text)
  /\ \A n \in 1..Len(lines) :
       /\ lines[n] # <<>>
       /\ lines[n] = JoinSpace(split_whitespace(lines[n]))
       /\ Length(lines[n], unit) <= width \/ Len(split_whitespace(lines[n])) = 1
  /\ \A n \in 2..Len(lines) :
       Length(lines[n - 1], unit) + 1 + Length(split_whitespace(lines[n])[1], unit) > width

WRAP_WIDTH == 80

\* As Create, had the file been opened for appending.
Create_appending(file) == file

\* File::create: the file exists and is empty, whatever it held before.
Create(file) == <<>>

Arrow == <<" ", "-", "-", ">", " ">>

\* The four writeln! of entry i (0-based), times in ticks.
SrtBlock(n, entry) ==
  <<Decimal(n + 1)>>
    \o <<format_srt_time(entry.start, Ticks(1)) \o Arrow
           \o format_srt_time(entry.end, Ticks(1))>>
    \o wrap_text(entry.text, WRAP_WIDTH)
    \o << <<>> >>

RECURSIVE SrtBlocks(_, _)
\* The blocks of entries n.. of the list, in the order of the list.
SrtBlocks(entries, n) ==
  IF n >= Len(entries) THEN <<>>
  ELSE SrtBlock(n, entries[n + 1]) \o SrtBlocks(entries, n + 1)

\* Largest number of cues serialized on their own.
MaxCues == 2
RECURSIVE Repeat(_, _)
Repeat(c, n) == IF n = 0 THEN <<>> ELSE <<c>> \o Repeat(c, n - 1)
\* Two words of 45 characters: more than one line of 80.
TwoLongWords == Repeat("a", 45) \o <<" ">> \o Repeat("b", 45)
SrtTexts == {<<>>, <<" ">>, <<"a", " ", " ", "b">>, TwoLongWords}
\* 0 s to 1.5005 s, 1.5005 s to 2 s, and a span that ends before it starts.
SrtSpans == {<<0, 30010>>, <<30010, 40000>>, <<30010, 0>>}
SrtCues == {Cue(sp[1], sp[2], t) : sp \in SrtSpans, t \in SrtTexts}
\* What an earlier run may have left at the path.
StaleFile == << <<"1">>, <<"o", "l", "d">>, <<>> >>

InitSrt ==
  /\ pc = "serialize"
  /\ fn_in \in SeqsUpTo(SrtCues, MaxCues)
  /\ fn_out \in {<<>>, StaleFile}
  /\ disk = {}
  /\ NoPipeline /\ NoReddit

\* write_srt returns Ok: the file is created anew and every block written.
\* It may be called once more on the same list.
write_srt_lines ==
  /\ pc \in {"serialize", "written"}
  /\ fn_out' = Create(fn_out) \o SrtBlocks(fn_in, 0)
  /\ pc' = IF pc = "serialize" THEN "written" ELSE "rewritten"
  /\ UNCHANGED <<pipeline, reddit, disk, fn_in>>

\* File::create(path)? fails: nothing is written.
create_err ==
  /\ pc = "serialize"
  /\ pc' = "write_failed"
  /\ UNCHANGED <<pipeline, reddit, disk, fn_in, fn_out>>

\* A writeln!(..)? fails: the file keeps the lines written before it.
writeln_err ==
  /\ pc = "serialize"
  /\ \E n \in 0..(Len(SrtBlocks(fn_in, 0)) - 1) :
       fn_out' = Create(fn_out) \o SubSeq(SrtBlocks(fn_in, 0), 1, n)
  /\ pc' = "write_failed"
  /\ UNCHANGED <<pipeline, reddit, disk, fn_in>>

NextSrt == write_srt_lines \/ create_err \/ writeln_err

SpecSrt == InitSrt /\ [][NextSrt]_vars

\* Reading a document back: its blocks are the runs of lines closed by a
\* blank line; `open` collects the lines of the block being read.
RECURSIVE BlocksOf(_, _)
BlocksOf(doc, open) ==
  IF doc = <<>> THEN (IF open = <<>> THEN <<>> ELSE << Append(open, <<"unterminated">>) >>)
  ELSE IF Head(doc) = <<>> THEN <<open>> \o BlocksOf(Tail(doc), <<>>)
  ELSE BlocksOf(Tail(doc), Append(open, Head(doc)))

\* Position of the first blank of a line (0 if none).
FirstBlank(line) ==
  IF \E q \in 1..Len(line) : line[q] = " "
  THEN CHOOSE q \in 1..Len(line) : line[q] = " " /\ \A r \in 1..(q - 1) : line[r] # " "
  ELSE 0

\* stamp says the time t (ticks) to the nearest millisecond.
StampSays(stamp, t) ==
  /\ StampWellFormed(stamp)
  /\ 2 * Abs(Ticks(StampMillis(stamp)) - t) <= Ticks(1)

\* block is the block of cue number n (1-based).
BlockIsCue(block, n, entry) ==
  /\ Len(block) >= 2
  /\ block[1] = Decimal(n)
  /\ LET q == FirstBlank(block[2])
     IN  /\ q > 1
         /\ StampSays(SubSeq(block[2], 1, q - 1), entry.start)
         /\ SubSeq(block[2], q, q + Len(Arrow) - 1) = Arrow
         /\ StampSays(SubSeq(block[2], q + Len(Arrow), Len(block[2])), entry.end)
  /\ GreedyWrap(entry.text, WRAP_WIDTH, SubSeq(block, 3, Len(block)), "bytes")

DocumentIsCues(doc, entries) ==
  /\ Len(BlocksOf(doc, <<>>)) = Len(entries)
  /\ \A n \in 1..Len(entries) : BlockIsCue(BlocksOf(doc, <<>>)[n], n, entries[n])

\* C13: after write_srt the file holds exactly one block per cue, in the
\* order of the list (not of the times): the 1-based index, the line
\* "<start> --> <end>", the wrapped lines of the text and one blank line; and
\* writing the same list once more leaves the very same file.
C13_OneBlockPerCueInOrder ==
  /\ [](pc \in {"written", "rewritten"} => DocumentIsCues(fn_out, fn_in))
  /\ [][pc' = "rewritten" => fn_out' = fn_out]_vars

\* The same list has been written twice over a stale file: two cues, the
\* second starting before the first, the first with a text of two lines.
C13_Witness ==
  /\ pc = "rewritten"
  /\ Len(fn_in) = 2
  /\ fn_in[2].start < fn_in[1].start
  /\ fn_in[1].text = TwoLongWords
  /\ Len(fn_out) = 8

\* ------------------------------------------- the audio functions on a file
\* Largest number of runs of a sample stream and of channels of a header.
MaxRuns == 3
MaxChannels == 2
\* Amplitudes on either side of the threshold, and run lengths in frames on
\* either side of the minimum silence length.
FrameRuns == {Run(a, n) : a \in {SILENCE_THRESHOLD - 1, SILENCE_THRESHOLD}, n \in {100, 2000}}

\* The interleaved stream of a stream of frames: every channel of a frame
\* carries the frame's amplitude.
Interleave(frames, c) == [n \in 1..Len(frames) |-> Run(frames[n].amp, frames[n].len * c)]

AudioFile(r, d, c, rate, frames) ==
  [readable |-> r, decodable |-> d, channels |-> c, sample_rate |-> rate,
   runs |-> Interleave(frames, c)]

AudioFiles ==
  {AudioFile(TRUE, TRUE, c, rate, fs) :
     c \in 0..MaxChannels, rate \in {0, 20000}, fs \in SeqsUpTo(FrameRuns, MaxRuns)}
    \cup {AudioFile(FALSE, FALSE, 1, 20000, <<>>),
          AudioFile(TRUE, FALSE, 1, 20000, <<Run(0, 100)>>)}

MinSilenceLens == {1, 150, MIN_SILENCE_LEN}

Pending == [ok |-> FALSE, val |-> 0, kind |-> "pending"]

InitAudio ==
  /\ pc = "audio"
  /\ fn_in \in {[file |-> w, min_silence_len |-> m] : w \in AudioFiles, m \in MinSilenceLens}
  /\ fn_out = [duration |-> Pending, silence |-> Pending]
  /\ disk = {}
  /\ NoPipeline /\ NoReddit

\* One call of wav_duration_seconds on the file.
call_wav_duration_seconds ==
  /\ pc = "audio" /\ fn_out.duration = Pending
  /\ fn_out' = [fn_out EXCEPT !.duration = wav_duration_seconds(fn_in.file)]
  /\ UNCHANGED <<pipeline, reddit, disk, fn_in, pc>>

\* One call of detect_leading_silence on the file.
call_detect_leading_silence ==
  /\ pc = "audio" /\ fn_out.silence = Pending
  /\ fn_out' = [fn_out EXCEPT !.silence =
                  detect_leading_silence(fn_in.file, SILENCE_THRESHOLD, fn_in.min_silence_len)]
  /\ UNCHANGED <<pipeline, reddit, disk, fn_in, pc>>

NextAudio == call_wav_duration_seconds \/ call_detect_leading_silence

SpecAudio == InitAudio /\ [][NextAudio]_vars

\* frames / sample_rate of a file with a positive header, in ticks.
FramesDuration(w) ==
  ((TotalSamples(w.runs) \div w.channels) * TicksPerSecond) \div w.sample_rate

\* C14: wav_duration_seconds returns frames / channels / sample_rate as a
\* finite number when the header's channel count and sample rate are
\* positive, and an error (never NaN or an infinite duration) when the
\* channel count or the sample rate is zero or the file cannot be opened.
C14_DurationFiniteOrError ==
  fn_out.duration # Pending =>
    LET w == fn_in.file
        r == fn_out.duration
    IN  /\ (w.readable /\ w.channels > 0 /\ w.sample_rate > 0) =>
             r.ok /\ r.kind = "finite" /\ r.val = FramesDuration(w)
        /\ (~w.readable \/ w.channels = 0 \/ w.sample_rate = 0) => ~r.ok

\* Every sample of the file is below the threshold.
AllSilent(w) == \A n \in 1..Len(w.runs) : w.runs[n].amp < SILENCE_THRESHOLD

\* C15: for a file whose every sample is below the threshold,
\* detect_leading_silence returns exactly the duration wav_duration_seconds
\* reports for it, for every channel count and every min_silence_len.
C15_SilentFileSilenceIsDuration ==
  (/\ fn_out.duration.ok /\ fn_out.silence.ok
   /\ fn_in.file.sample_rate > 0
   /\ AllSilent(fn_in.file))
    => fn_out.silence.val = fn_out.duration.val

\* Samples before the first sample at or above the threshold (all of them
\* if there is none).
RECURSIVE SamplesBeforeSound(_)
SamplesBeforeSound(runs) ==
  IF runs = <<>> THEN 0
  ELSE IF Head(runs).len > 0 /\ Head(runs).amp >= SILENCE_THRESHOLD THEN 0
  ELSE Head(runs).len + SamplesBeforeSound(Tail(runs))

\* C19: the value detect_leading_silence returns is the silence at the start
\* of the audio: 0 if the first sample is at or above the threshold, never
\* more than the time offset of the first non-silent sample, so neither a
\* silent run after a reset nor a short run at the end of the stream is
\* reported.
C19_OnlySilenceAtTheStart ==
  (fn_out.silence.ok /\ fn_in.file.sample_rate > 0) =>
    LET w == fn_in.file
    IN  fn_out.silence.val
          <= ((SamplesBeforeSound(w.runs) \div w.channels) * TicksPerSecond) \div w.sample_rate

\* ------------------------------------------------------------- chunk_text
\* [.!?]
IsTerminator(c) == c \in {".", "!", "?"}

RECURSIVE RunEnd(_, _, _)
\* Index of the last character of the run of characters from p on that are
\* (terminator = TRUE) or are not (FALSE) terminators; p - 1 if there is none.
RunEnd(text, p, terminator) ==
  IF p <= Len(text) /\ IsTerminator(text[p]) = terminator
  THEN RunEnd(text, p + 1, terminator) ELSE p - 1

\* str::trim
trim(t) ==
  LET solid == {p \in 1..Len(t) : ~IsWhitespace(t[p])}
  IN  IF solid = {} THEN <<>>
      ELSE SubSeq(t, CHOOSE p \in solid : \A q \in solid : p <= q,
                     CHOOSE p \in solid : \A q \in solid : p >= q)

RECURSIVE captures_iter(_, _)
\* The matches of ([^.!?]+[.!?]+)|([^.!?]+$) from position p on, leftmost
\* first and not overlapping: a run of non-terminators with the terminators
\* that follow it, or a run of non-terminators that reaches the end of the
\* text; a terminator with nothing before it is in no match.
captures_iter(text, p) ==
  IF p > Len(text) THEN <<>>
  ELSE IF IsTerminator(text[p]) THEN captures_iter(text, p + 1)
  ELSE LET q == RunEnd(text, p, FALSE)
           r == RunEnd(text, q + 1, TRUE)
       IN  <<SubSeq(text, p, r)>> \o captures_iter(text, r + 1)

\* The first loop of chunk_text: the trimmed, non-empty matches.
Sentences(text) ==
  SelectSeq([n \in 1..Len(captures_iter(text, 1)) |-> trim(captures_iter(text, 1)[n])],
            LAMBDA t : t # <<>>)

\* current.len() + 1 + s.len() <= max_chars
FitsChunk(current, sentence, max_chars) == len(current) + 1 + len(sentence) <= max_chars

RECURSIVE chunk_loop(_, _, _, _)
\* The second loop of chunk_text and the final push.
chunk_loop(sentences, current, chunks_, max_chars) ==
  IF sentences = <<>> THEN (IF current # <<>> THEN Append(chunks_, current) ELSE chunks_)
  ELSE LET sentence == Head(sentences)
       IN  IF current = <<>>
             THEN chunk_loop(Tail(sentences), sentence, chunks_, max_chars)
           ELSE IF FitsChunk(current, sentence, max_chars)
             THEN chunk_loop(Tail(sentences), current \o <<" ">> \o sentence, chunks_, max_chars)
           ELSE chunk_loop(Tail(sentences), sentence, Append(chunks_, current), max_chars)

chunk_text(text, max_chars) ==
  IF Sentences(text) = <<>> THEN <<text>>
  ELSE chunk_loop(Sentences(text), <<>>, <<>>, max_chars)

\* Longest text chunked on its own, and the largest limit tried on it.
MaxStoryLen == 6
MaxChars == 5
StoryAlphabet == {"a", ".", " "}

InitChunk ==
  /\ pc = "chunk"
  /\ fn_in \in {<<t, m>> : t \in SeqsUpTo(StoryAlphabet, MaxStoryLen), m \in 0..MaxChars}
  /\ fn_out = <<>>
  /\ disk = {}
  /\ NoPipeline /\ NoReddit

\* One call of chunk_text.
chunk ==
  /\ pc = "chunk"
  /\ fn_out' = chunk_text(fn_in[1], fn_in[2])
  /\ pc' = "chunked"
  /\ UNCHANGED <<pipeline, reddit, disk, fn_in>>

NextChunk == chunk

SpecChunk == InitChunk /\ [][NextChunk]_vars

\* The chunks hold the sentences of the text in their order, none dropped or
\* twice: read one after the other they are the sentences read one after the
\* other.
ChunksKeepSentences ==
  pc = "chunked" =>
    (Sentences(fn_in[1]) # <<>> => JoinSpace(fn_out) = JoinSpace(Sentences(fn_in[1])))

\* Every chunk is at most max_chars long.
ChunksWithinLimit ==
  pc = "chunked" => \A n \in 1..Len(fn_out) : len(fn_out[n]) <= fn_in[2]

\* C16: for every text and every max_chars, every chunk chunk_text returns is
\* at most max_chars characters long, and the chunks in order contain the
\* text's sentences in their original order, none dropped or duplicated.
C16_ChunksWithinLimitKeepSentences == ChunksWithinLimit /\ ChunksKeepSentences

\* ----------------------------------------------------- fetch_reddit_story
\* Runs of fetch_reddit_story one after the other, sharing used_posts.json.
\* fn_in counts the runs started and fn_out is the result of the last one:
\* <<"Ok", id>> or <<"Err", cause>>.
\* Largest number of runs and of children of one listing.
MaxFetches == 3
MaxListing == 2

PostIds == {"p1", "p2"}
\* A child of the listing: its id, its over_18 field (an Option<bool>) and
\* whether its text passes the text conditions of the variant at hand
\* (reddit.rs: sanitize_post gives Some, non-empty, at least min_chars;
\* main.rs: non-empty).
Posts ==
  {[id |-> d, over_18 |-> o, text_ok |-> t] :
     d \in PostIds,
     o \in {"None", "Some(true)"},
     t \in BOOLEAN} \ {[id |-> d, over_18 |-> "Some(true)", text_ok |-> FALSE] : d \in PostIds}
Listings == SeqsUpTo(Posts, MaxListing)

\* post.over_18.unwrap_or(false)
nsfw(post) == post.over_18 = "Some(true)"

\* The used-post file: either it holds a JSON array of ids (a file that does
\* not exist reads as the empty set) or it does not parse.
UsedFile(ids) == [valid |-> TRUE, ids |-> ids]
BrokenFile == [valid |-> FALSE, ids |-> {}]

\* As ShouldSkip, had the used set not been consulted.
ShouldSkip_usedNotConsulted(post, used) == nsfw(post)

\* nsfw || used_ids.contains(&post.id)
ShouldSkip(post, used) == nsfw(post) \/ post.id \in used

InitReddit ==
  /\ pc = "idle"
  /\ fn_in = 0
  /\ fn_out = <<>>
  /\ used_file = UsedFile({})
  /\ used_ids = {}
  /\ listing = <<>>
  /\ child = 0
  /\ returned = <<>>
  /\ disk = {}
  /\ NoPipeline

\* The request or the parse of the listing fails: the run returns Err.
request_err ==
  /\ pc = "idle" /\ fn_in < MaxFetches
  /\ fn_in' = fn_in + 1
  /\ fn_out' = <<"Err", "request">>
  /\ UNCHANGED <<pipeline, disk, pc, used_file, used_ids, listing, child, returned>>

\* load_used_ids(used_path)? fails on a file that does not parse.
load_used_ids_err ==
  /\ pc = "idle" /\ fn_in < MaxFetches
  /\ ~used_file.valid
  /\ fn_in' = fn_in + 1
  /\ fn_out' = <<"Err", "load">>
  /\ \E l \in Listings : listing' = l
  /\ UNCHANGED <<pipeline, disk, pc, used_file, used_ids, child, returned>>

\* The listing is fetched and parsed and the used set is loaded.
load_used_ids_ok ==
  /\ pc = "idle" /\ fn_in < MaxFetches
  /\ used_file.valid
  /\ fn_in' = fn_in + 1
  /\ \E l \in Listings : listing' = l
  /\ used_ids' = used_file.ids
  /\ child' = 0
  /\ pc' = "scan"
  /\ UNCHANGED <<pipeline, disk, fn_out, used_file, returned>>

\* `continue`: the child is NSFW or already used.
skip_post ==
  /\ pc = "scan" /\ child < Len(listing)
  /\ ShouldSkip(listing[child + 1], used_ids)
  /\ child' = child + 1
  /\ UNCHANGED <<pipeline, disk, pc, fn_in, fn_out, used_file, used_ids, listing, returned>>

\* The text conditions fail: the loop goes on to the next child.
reject_post ==
  /\ pc = "scan" /\ child < Len(listing)
  /\ ~ShouldSkip(listing[child + 1], used_ids)
  /\ ~listing[child + 1].text_ok
  /\ child' = child + 1
  /\ UNCHANGED <<pipeline, disk, pc, fn_in, fn_out, used_file, used_ids, listing, returned>>

\* The child is taken: its id is inserted, the set is saved, the text is
\* returned.
select_post ==
  /\ pc = "scan" /\ child < Len(listing)
  /\ ~ShouldSkip(listing[child + 1], used_ids)
  /\ listing[child + 1].text_ok
  /\ used_ids' = used_ids \cup {listing[child + 1].id}
  /\ used_file' = UsedFile(used_ids')
  /\ returned' = Append(returned, listing[child + 1].id)
  /\ fn_out' = <<"Ok", listing[child + 1].id>>
  /\ pc' = "idle"
  /\ UNCHANGED <<pipeline, disk, fn_in, listing, child>>

\* The child is taken but save_used_ids(..)? fails: the run returns Err; the
\* file is as it was, or truncated by the failed fs::write.
save_used_ids_err ==
  /\ pc = "scan" /\ child < Len(listing)
  /\ ~ShouldSkip(listing[child + 1], used_ids)
  /\ listing[child + 1].text_ok
  /\ used_ids' = used_ids \cup {listing[child + 1].id}
  /\ used_file' \in {used_file, BrokenFile}
  /\ fn_out' = <<"Err", "save">>
  /\ pc' = "idle"
  /\ UNCHANGED <<pipeline, disk, fn_in, listing, child, returned>>

\* The loop is over without a return: bail!("No suitable posts found").
no_suitable_post ==
  /\ pc = "scan" /\ child = Len(listing)
  /\ fn_out' = <<"Err", "no suitable post">>
  /\ pc' = "idle"
  /\ UNCHANGED <<pipeline, disk, fn_in, used_file, used_ids, listing, child, returned>>

NextReddit ==
  \/ request_err
  \/ load_used_ids_err
  \/ load_used_ids_ok
  \/ skip_post
  \/ reject_post
  \/ select_post
  \/ save_used_ids_err
  \/ no_suitable_post

SpecReddit == InitReddit /\ [][NextReddit]_vars

\* C17: a run never returns a post whose id is in the persisted used set or
\* that is marked NSFW; when it returns a post, the id is in the saved set;
\* over the runs sharing the file no id is returned twice; and a run that
\* finds no suitable post leaves the saved set as it was.
C17_NoPostReturnedTwice ==
  /\ [](\A m, n \in 1..Len(returned) : returned[m] = returned[n] => m = n)
  /\ [][returned' # returned =>
          /\ returned' = Append(returned, listing[child + 1].id)
          /\ listing[child + 1].id \notin used_file.ids
          /\ listing[child + 1].over_18 # "Some(true)"
          /\ used_file'.valid /\ listing[child + 1].id \in used_file'.ids
          /\ fn_out' = <<"Ok", listing[child + 1].id>>]_vars
  /\ [][(fn_out' # fn_out /\ fn_out'[1] = "Ok") => returned' # returned]_vars
  /\ [][(fn_out' = <<"Err", "no suitable post">>) => used_file' = used_file]_vars

\* Two runs have each returned a post, the second from a listing that offered
\* the first run's post again before the one it took.
C17_Witness ==
  /\ pc = "idle"
  /\ Len(returned) = 2
  /\ Len(listing) = 2
  /\ listing[1].id = returned[1]
  /\ listing[2].id = returned[2]
  /\ listing[1].text_ok /\ ~nsfw(listing[1])

\* ------------------------------------------ the timing of a single segment
\* The timing loop on one segment whose text has at least one word, from the
\* state in which the loop starts: one audio file, no cue, the clock at 0.
\* Longest text timed on its own.
MaxAllocLen == 4
AElephant == <<"a", " ", "e", "l", "e", "p", "h", "a", "n", "t">>
AllocTexts ==
  {t \in SeqsUpTo({"a", " ", ",", "."}, MaxAllocLen) : WordElements(Elements(t)) # <<>>}
    \cup {AElephant}
\* Mono files of 3 s, of 0.1 s of quiet and 1 s, and of 0.25 s (less than a
\* sentence-end pause), and a stereo file of 1 s.
AllocWavs ==
  {Wav(TRUE, TRUE, 1, LeadThenLoud(0, 60000)),
   Wav(TRUE, TRUE, 1, LeadThenLoud(2000, 20000)),
   Wav(TRUE, TRUE, 1, LeadThenLoud(0, 5000)),
   Wav(TRUE, TRUE, 2, LeadThenLoud(0, 40000))}

InitAlloc ==
  /\ variant \in {"lib", "main"}
  /\ chunks \in {<<t>> : t \in AllocTexts}
  /\ pc = "timing"
  /\ i = 0
  /\ part_files = <<0>>
  /\ srt_entries = <<>>
  /\ cumulative_seconds = 0
  /\ dur = 0 /\ leading_silence = 0
  /\ start_time_of_chunk = 0 /\ end_time_of_chunk = 0
  /\ elements = <<>> /\ word_time_available = 0 /\ total_weight = 0
  /\ current_time_in_chunk = 0
  /\ j = 0
  /\ srt_file = <<>>
  /\ error = ""
  /\ segs = <<>>
  /\ disk = AllocWavs
  /\ NoFunction /\ NoReddit

NextAlloc ==
  \/ begin_chunk
  \/ walk_comma
  \/ walk_sentence_end
  \/ walk_word
  \/ end_chunk

SpecAlloc == InitAlloc /\ [][NextAlloc]_vars

\* wordBudget of the segment: max(0, totalDuration - leadingSilence -
\* pauseTime), the leading silence being the one the loop uses.
WordBudget ==
  Max(0, segs[1].dur - segs[1].used_silence - TotalPauseTime(Elements(segs[1].text)))
\* charCount(w)^exponent, times 1000, and its sum over the segment's words.
Weight(w) == IF variant = "lib" THEN Pow075[Len(w)] ELSE Pow050[Len(w)]
RECURSIVE WeightSum(_)
WeightSum(words) == IF words = <<>> THEN 0 ELSE Weight(Head(words)) + WeightSum(Tail(words))
\* The word cues of the segment and the sum of their durations.
WordCueIdx == {n \in 1..Len(srt_entries) : srt_entries[n].text # <<" ">>}
RECURSIVE WordSpanSum(_)
WordSpanSum(n) ==
  IF n = 0 THEN 0
  ELSE (IF n \in WordCueIdx THEN srt_entries[n].end - srt_entries[n].start ELSE 0)
         + WordSpanSum(n - 1)

\* Each word cue starts at the running cursor and lasts wordBudget *
\* weight(w) / totalWeight (to the tick); once the segment is timed the word
\* durations sum to wordBudget (to the millisecond) and a longer word has
\* not got less time than a shorter one.
WordsShareBudgetByWeight ==
  /\ [][Len(srt_entries') > Len(srt_entries) /\ srt_entries'[Len(srt_entries')].text # <<" ">> =>
          LET cue == srt_entries'[Len(srt_entries')]
              d == cue.end - cue.start
              total == WeightSum(WordTokens(Elements(segs[1].text), variant))
          IN  /\ cue.start = current_time_in_chunk
              /\ current_time_in_chunk' = cue.end
              /\ total > 0
              /\ d * total <= WordBudget * Weight(cue.text)
              /\ WordBudget * Weight(cue.text) < (d + 1) * total]_vars
  /\ [](pc = "timing" /\ i = 1 =>
          /\ Abs(WordSpanSum(Len(srt_entries)) - WordBudget) <= Tolerance
          /\ \A m, n \in WordCueIdx :
               Len(srt_entries[m].text) >= Len(srt_entries[n].text) =>
                 srt_entries[m].end - srt_entries[m].start
                   >= srt_entries[n].end - srt_entries[n].start)

\* "a elephant" has been timed with exponent 0.5 and a budget of 3.0 s.
AElephantTimed ==
  /\ pc = "timing" /\ i = 1
  /\ variant = "main"
  /\ chunks = <<AElephant>>
  /\ WordBudget = Ticks(3000)

\* The two durations of the example are within tol of first and second (ms).
AElephantSplit(first, second, tol) ==
  /\ Len(srt_entries) = 2
  /\ Abs(srt_entries[1].end - srt_entries[1].start - Ticks(first)) <= tol
  /\ Abs(srt_entries[2].end - srt_entries[2].start - Ticks(second)) <= tol

\* C18 as stated: in a segment with at least one word each word cue starts at
\* the running cursor and lasts wordBudget * weight(w) / totalWeight, with
\* weight(w) = charCount(w)^exponent and wordBudget = max(0, totalDuration -
\* leadingSilence - pauseTime); the word durations sum to wordBudget, a
\* longer word never gets less time than a shorter one, and "a" and
\* "elephant" with exponent 0.5 and 3.0 s get about 0.796 s and 2.204 s
\* (to 5 ms).
C18_WordSplitAsStated ==
  /\ WordsShareBudgetByWeight
  /\ [](AElephantTimed => AElephantSplit(796, 2204, Ticks(5)))

\* C18, amended: the same, the example's split being about 0.784 s and
\* 2.216 s (3.0 / (1 + sqrt 8) and the rest, to 1 ms).
C18_WordSplitByWeight ==
  /\ WordsShareBudgetByWeight
  /\ [](AElephantTimed => AElephantSplit(784, 2216, Ticks(1)))

\* "a elephant" has been timed by the loop of main.rs on a file of 3.0 s:
\* two word cues, the second the longer.
C18_Witness ==
  /\ AElephantTimed
  /\ Len(srt_entries) = 2
  /\ srt_entries[1].text = <<"a">>
  /\ srt_entries[2].end - srt_entries[2].start > srt_entries[1].end - srt_entries[1].start
  /\ Ticks(3000) - srt_entries[2].end <= Tolerance

====
